---- MODULE Spec2Model ----
(***************************************************************************)
(* A model of the Model reconciler of ollama-operator                      *)
(* (internal/controller/model_controller.go and the deployment / service   *)
(* helpers of pkg/model).  One reconcile pass is a sequence of store       *)
(* calls; every store call is one atomic step of a worker, so that passes  *)
(* of several workers and the cluster's own controllers interleave between *)
(* any two calls.                                                          *)
(***************************************************************************)
EXTENDS Integers, Sequences, FiniteSets, TLC

VARIABLES
    store,       \* the cluster resource store: object id -> object
    pc,          \* per worker: the call of Reconcile the worker is about to make
    wkey,        \* per worker: req.NamespacedName of the passes it is handed
    m,           \* per worker: `m`, the Model fetched at the top of Reconcile
    deployment,  \* per worker: `deployment`, returned by EnsureDeploymentCreated
    live,        \* per worker: the deployment UpdateDeployment read
    result,      \* per worker: (ctrl.Result, error) of the pass that ended last
    calls,       \* per worker: the store calls of the current (or last) pass
    budget,      \* disturbances the environment may still cause
    npass        \* passes of the end-to-end scenario dispatched so far

vars == <<store, pc, wkey, m, deployment, live, result, calls, budget, npass>>

(***************************************************************************)
(* Bounds of the model.                                                    *)
(***************************************************************************)
MaxReplicas == 2
MaxEnv == 1

(***************************************************************************)
(* Program constants.                                                      *)
(***************************************************************************)
RequeueShort == 1
RequeueMedium == 5
DefaultReplicas == 1

Workers == {"w1", "w2"}

Key(ns, name) == [namespace |-> ns, name |-> name]
K1 == Key("ns1", "a")
K2 == Key("ns1", "b")
K3 == Key("ns2", "a")
Keys == {K1, K2, K3}
Namespaces == {k.namespace : k \in Keys}
Images == {"x", "y"}

\* *int32: <<>> is nil, <<n>> points to n
NilPtr == <<>>
ToPtr(n) == <<n>>
ReplicaPtrs == {NilPtr} \cup {ToPtr(n) : n \in 1..MaxReplicas}
Deref(p, default) == IF p = NilPtr THEN default ELSE p[1]

(***************************************************************************)
(* Names and identities of the objects a pass reads and writes.            *)
(***************************************************************************)
ModelAppName(name) == "ollama-model-" \o name

imageStorePVCName == "ollama-models-store-pvc"
imageStoreName == "ollama-models-store"

ModelId(k) == <<"Model", k.namespace, k.name>>
DeploymentId(namespace, name) == <<"Deployment", namespace, ModelAppName(name)>>
ServiceId(namespace, name) == <<"Service", namespace, ModelAppName(name)>>
ImageStorePVCId(namespace) == <<"PersistentVolumeClaim", namespace, imageStorePVCName>>
ImageStoreStatefulSetId(namespace) == <<"StatefulSet", namespace, imageStoreName>>
ImageStoreServiceId(namespace) == <<"Service", namespace, imageStoreName>>

ObjectIds ==
    {ModelId(k) : k \in Keys}
    \cup {DeploymentId(k.namespace, k.name) : k \in Keys}
    \cup {ServiceId(k.namespace, k.name) : k \in Keys}
    \cup {ImageStorePVCId(ns) : ns \in Namespaces}
    \cup {ImageStoreStatefulSetId(ns) : ns \in Namespaces}
    \cup {ImageStoreServiceId(ns) : ns \in Namespaces}

(***************************************************************************)
(* Objects.  uid counts the incarnations created under the name, rv is the *)
(* resourceVersion the store compares on update.                           *)
(***************************************************************************)
NoSpec == [none |-> TRUE]
NoObject == [exists |-> FALSE, uid |-> 0, rv |-> 0, spec |-> NoSpec, status |-> NoSpec]

ModelProgressing == "Progressing"
ModelAvailable == "Available"

ModelStatus(conditions, replicas, ready, available, unavailable) ==
    [conditions |-> conditions, replicas |-> replicas, readyReplicas |-> ready,
     availableReplicas |-> available, unavailableReplicas |-> unavailable]

NewModel(image, replicas) ==
    [exists |-> TRUE, uid |-> 1, rv |-> 1,
     spec |-> [image |-> image, replicas |-> replicas],
     status |-> ModelStatus(<<>>, 0, 0, 0, 0)]

DeploymentStatus(replicas, ready, available, unavailable) ==
    [replicas |-> replicas, readyReplicas |-> ready,
     availableReplicas |-> available, unavailableReplicas |-> unavailable]

(***************************************************************************)
(* The resource store client: get / create / update / status update.       *)
(***************************************************************************)
ErrNil == "nil"
ErrNotFound == "NotFound"
ErrAlreadyExists == "AlreadyExists"
ErrConflict == "Conflict"
ErrUnavailable == "Unavailable"

GetErr(id) == IF store[id].exists THEN ErrNil ELSE ErrNotFound

CreateErr(id) == IF store[id].exists THEN ErrAlreadyExists ELSE ErrNil

Created(id, spec, status) ==
    [exists |-> TRUE, uid |-> store[id].uid + 1, rv |-> 1, spec |-> spec, status |-> status]

UpdateErr(id, obj) ==
    IF ~store[id].exists THEN ErrNotFound
    ELSE IF store[id].rv # obj.rv \/ store[id].uid # obj.uid THEN ErrConflict
    ELSE ErrNil

Updated(id, obj) == [store[id] EXCEPT !.spec = obj.spec, !.rv = @ + 1]

StatusUpdated(id, obj) == [store[id] EXCEPT !.status = obj.status, !.rv = @ + 1]

(***************************************************************************)
(* Results of a pass.                                                      *)
(***************************************************************************)
Result(requeue, after, err) == [requeue |-> requeue, after |-> after, err |-> err]
ResultDone == Result(FALSE, 0, ErrNil)
ResultError(err) == Result(FALSE, 0, err)
ResultRequeueAfter(n) == Result(TRUE, n, ErrNil)

Idle == "idle"

\* a logged store call: where in the pass, which verb on which object, the error
\* it returned and, for a readiness check, what it reported
CallRec(step, op, id) ==
    [step |-> step, op |-> op, obj |-> id, err |-> ErrNil, ready |-> FALSE]

\* the call is logged, the pass goes on at `next`
Proceed(w, call, next) ==
    /\ calls' = [calls EXCEPT ![w] = Append(@, call)]
    /\ pc' = [pc EXCEPT ![w] = next]
    /\ UNCHANGED result

\* no call is made, the pass goes on at `next`
Skip(w, next) ==
    /\ pc' = [pc EXCEPT ![w] = next]
    /\ UNCHANGED <<calls, result>>

\* the call is logged and the pass returns r
Return(w, call, r) ==
    /\ calls' = [calls EXCEPT ![w] = Append(@, call)]
    /\ pc' = [pc EXCEPT ![w] = Idle]
    /\ result' = [result EXCEPT ![w] = r]

\* no call is made and the pass asks to be run again
FinishWithRequeue(w, r) ==
    /\ pc' = [pc EXCEPT ![w] = Idle]
    /\ result' = [result EXCEPT ![w] = ResultRequeueAfter(RequeueMedium)]
    /\ UNCHANGED calls

\* no call is made and the pass returns r
Finish(w, r) ==
    /\ pc' = [pc EXCEPT ![w] = Idle]
    /\ result' = [result EXCEPT ![w] = r]
    /\ UNCHANGED calls

Namespace(w) == wkey[w].namespace
Name(w) == wkey[w].name

(***************************************************************************)
(* Status tracker (controller package).                                    *)
(***************************************************************************)
HasCondition(conditions, type) ==
    \E i \in 1..Len(conditions) : conditions[i] = type

IsProgressing(ollamaModelResource) ==
    HasCondition(ollamaModelResource.status.conditions, ModelProgressing)

\* the filter matches no condition
IsAvailableNever(ollamaModelResource) == FALSE

IsAvailable(ollamaModelResource) ==
    HasCondition(ollamaModelResource.status.conditions, ModelAvailable)

\* the copy SetProgressing hands to Status().Update
WithProgressing(ollamaModelResource) ==
    [ollamaModelResource EXCEPT !.status.conditions = <<ModelProgressing>>]

\* the list the pass read is kept; a closing Progressing entry and the
\* Available entry are appended to it
WithAvailableAppended(ollamaModelResource) ==
    [ollamaModelResource EXCEPT
        !.status.conditions = @ \o <<ModelProgressing, ModelAvailable>>]

\* the copy SetAvailable hands to Status().Update
WithAvailable(ollamaModelResource) ==
    [ollamaModelResource EXCEPT !.status.conditions = <<ModelAvailable>>]

\* the four comparisons joined by "and"
ShouldSetReplicasAll(ollamaModelResource, status) ==
    /\ ollamaModelResource.status.replicas # status.replicas
    /\ ollamaModelResource.status.readyReplicas # status.readyReplicas
    /\ ollamaModelResource.status.availableReplicas # status.availableReplicas
    /\ ollamaModelResource.status.unavailableReplicas # status.unavailableReplicas

ShouldSetReplicas(ollamaModelResource, status) ==
    \/ ollamaModelResource.status.replicas # status.replicas
    \/ ollamaModelResource.status.readyReplicas # status.readyReplicas
    \/ ollamaModelResource.status.availableReplicas # status.availableReplicas
    \/ ollamaModelResource.status.unavailableReplicas # status.unavailableReplicas

\* the copy SetReplicas hands to Status().Update
WithReplicas(ollamaModelResource, status) ==
    [ollamaModelResource EXCEPT
        !.status.replicas = status.replicas,
        !.status.readyReplicas = status.readyReplicas,
        !.status.availableReplicas = status.availableReplicas,
        !.status.unavailableReplicas = status.unavailableReplicas]

(***************************************************************************)
(* Readiness predicates and constructors of the stage executors.           *)
(***************************************************************************)
NewPVC == [claim |-> imageStorePVCName]
NewStatefulSetSpec == [replicas |-> ToPtr(1)]
NewStatefulSetStatus == [readyReplicas |-> 0]
NewServiceSpec == [clusterIP |-> ""]
NoStatus == [none |-> TRUE]

StatefulSetReady(obj) ==
    obj.exists /\ obj.status.readyReplicas = Deref(obj.spec.replicas, DefaultReplicas)

ServiceReady(obj) == obj.exists /\ obj.spec.clusterIP # ""

DeploymentReady(obj) ==
    obj.exists /\ obj.status.readyReplicas = Deref(obj.spec.replicas, DefaultReplicas)

NewDeploymentSpec(image, replicas) ==
    [image |-> image,
     replicas |-> IF replicas = NilPtr THEN ToPtr(DefaultReplicas) ELSE replicas]

(***************************************************************************)
(* The call a worker is about to make, if the step at its pc makes one.    *)
(***************************************************************************)
NoCall == CallRec("none", "none", <<>>)

PendingCall(w) ==
    LET ns == Namespace(w)
        n == Name(w)
    IN  CASE pc[w] = "Get" -> CallRec(pc[w], "get", ModelId(wkey[w]))
          [] pc[w] = "SetProgressing" ->
                IF IsProgressing(m[w]) THEN NoCall
                ELSE CallRec(pc[w], "updateStatus", ModelId(wkey[w]))
          [] pc[w] = "EnsureImageStorePVCCreated" -> CallRec(pc[w], "get", ImageStorePVCId(ns))
          [] pc[w] = "CreateImageStorePVC" -> CallRec(pc[w], "create", ImageStorePVCId(ns))
          [] pc[w] = "EnsureImageStoreStatefulSetCreated" ->
                CallRec(pc[w], "get", ImageStoreStatefulSetId(ns))
          [] pc[w] = "CreateImageStoreStatefulSet" ->
                CallRec(pc[w], "create", ImageStoreStatefulSetId(ns))
          [] pc[w] = "IsImageStoreStatefulSetReady" ->
                CallRec(pc[w], "get", ImageStoreStatefulSetId(ns))
          [] pc[w] = "EnsureImageStoreServiceCreated" ->
                CallRec(pc[w], "get", ImageStoreServiceId(ns))
          [] pc[w] = "CreateImageStoreService" -> CallRec(pc[w], "create", ImageStoreServiceId(ns))
          [] pc[w] = "IsImageStoreServiceReady" -> CallRec(pc[w], "get", ImageStoreServiceId(ns))
          [] pc[w] = "EnsureDeploymentCreated" -> CallRec(pc[w], "get", DeploymentId(ns, n))
          [] pc[w] = "CreateDeployment" -> CallRec(pc[w], "create", DeploymentId(ns, n))
          [] pc[w] = "UpdateDeployment" -> CallRec(pc[w], "get", DeploymentId(ns, n))
          [] pc[w] = "UpdateDeploymentWrite" -> CallRec(pc[w], "update", DeploymentId(ns, n))
          [] pc[w] = "IsDeploymentReady" -> CallRec(pc[w], "get", DeploymentId(ns, n))
          [] pc[w] = "EnsureServiceCreated" -> CallRec(pc[w], "get", ServiceId(ns, n))
          [] pc[w] = "CreateService" -> CallRec(pc[w], "create", ServiceId(ns, n))
          [] pc[w] = "IsServiceReady" -> CallRec(pc[w], "get", ServiceId(ns, n))
          [] pc[w] = "SetReplicas" ->
                IF ShouldSetReplicas(m[w], deployment[w].status)
                THEN CallRec(pc[w], "updateStatus", ModelId(wkey[w]))
                ELSE NoCall
          [] pc[w] = "SetAvailable" ->
                IF IsAvailable(m[w]) THEN NoCall
                ELSE CallRec(pc[w], "updateStatus", ModelId(wkey[w]))
          [] OTHER -> NoCall

Failed(call, err) == [call EXCEPT !.err = err]

Observed(call, ready) == [call EXCEPT !.ready = ready]

Put(id, obj) == store' = [store EXCEPT ![id] = obj]

Locals(w, mm, dd, ll) ==
    /\ m' = [m EXCEPT ![w] = mm]
    /\ deployment' = [deployment EXCEPT ![w] = dd]
    /\ live' = [live EXCEPT ![w] = ll]

SameLocals == UNCHANGED <<m, deployment, live>>
SameScenario == UNCHANGED <<wkey, budget, npass>>

(***************************************************************************)
(* Reconcile, one action per call of the pass.                             *)
(***************************************************************************)
BeginPass(w) ==
    /\ pc[w] = Idle
    /\ pc' = [pc EXCEPT ![w] = "Get"]
    /\ calls' = [calls EXCEPT ![w] = <<>>]
    /\ result' = [result EXCEPT ![w] = ResultDone]
    /\ Locals(w, NoObject, NoObject, NoObject)

\* the keys the work queue may hold: those of the owning resources ever created
Requests == {k \in Keys : store[ModelId(k)].uid > 0}

\* a watch event, a resync or an earlier requeue hands key k to worker w
StartPass(w, k) ==
    /\ k \in Requests
    /\ BeginPass(w)
    /\ wkey' = [wkey EXCEPT ![w] = k]
    /\ UNCHANGED <<store, budget, npass>>

\* r.Get failed and not-found is returned like any other error
FetchFailedReturnsError(w, call, err) == Return(w, Failed(call, err), ResultError(err))

\* r.Get failed: client.IgnoreNotFound(err)
FetchFailed(w, call, err) ==
    Return(w, Failed(call, err), IF err = ErrNotFound THEN ResultDone ELSE ResultError(err))

Fetch(w) ==
    /\ pc[w] = "Get"
    /\ LET id == ModelId(wkey[w])
           call == PendingCall(w)
       IN  IF GetErr(id) = ErrNil
           THEN /\ Locals(w, store[id], deployment[w], live[w])
                /\ Proceed(w, call, IF IsAvailable(store[id])
                                    THEN "EnsureImageStorePVCCreated"
                                    ELSE "SetProgressing")
           ELSE /\ FetchFailed(w, call, GetErr(id))
                /\ SameLocals
    /\ UNCHANGED store
    /\ SameScenario

\* the pass that set Progressing waits as long as a readiness gate does
ProgressingSetMedium(w, call) == Return(w, call, ResultRequeueAfter(RequeueMedium))

\* hasSet: the pass ends and asks to be requeued shortly
ProgressingSet(w, call) == Return(w, call, ResultRequeueAfter(RequeueShort))

\* the error is returned together with a requeue request
AbortWithRequeue(w, call, err) ==
    Return(w, Failed(call, err), Result(TRUE, RequeueMedium, err))

\* a failed call ends the pass with the error and an empty result
Abort(w, call, err) == Return(w, Failed(call, err), ResultError(err))

\* the error of the status write is dropped and the pass goes on
SetProgressingIgnoresError(w, call, err) ==
    Proceed(w, Failed(call, err), "EnsureImageStorePVCCreated")

SetProgressingFailed(w, call, err) == Abort(w, call, err)

SetProgressing(w) ==
    /\ pc[w] = "SetProgressing"
    /\ LET id == ModelId(wkey[w])
           call == PendingCall(w)
           err == UpdateErr(id, m[w])
       IN  IF IsProgressing(m[w])
           THEN Skip(w, "EnsureImageStorePVCCreated") /\ UNCHANGED store
           ELSE IF err = ErrNil
           THEN Put(id, StatusUpdated(id, WithProgressing(m[w]))) /\ ProgressingSet(w, call)
           ELSE SetProgressingFailed(w, call, err) /\ UNCHANGED store
    /\ SameLocals
    /\ SameScenario

\* the read of an ensure step: found -> next stage, absent -> create
EnsureRead(w, id, create, next) ==
    IF GetErr(id) = ErrNil
    THEN Proceed(w, PendingCall(w), next)
    ELSE Proceed(w, Failed(PendingCall(w), ErrNotFound), create)

\* the create of an ensure step
EnsureCreate(w, id, spec, status, next) ==
    IF CreateErr(id) = ErrNil
    THEN Put(id, Created(id, spec, status)) /\ Proceed(w, PendingCall(w), next)
    ELSE Abort(w, PendingCall(w), CreateErr(id)) /\ UNCHANGED store

\* a gate that ends the pass without asking for another one
NotReadyDone(w, call) == Return(w, call, ResultDone)

\* a gate that asks for the short delay of the Progressing transition
NotReadyShort(w, call) == Return(w, call, ResultRequeueAfter(RequeueShort))

\* a readiness gate: ready -> next stage, otherwise requeue
NotReady(w, call) == Return(w, call, ResultRequeueAfter(RequeueMedium))

Gate(w, id, ready, next) ==
    LET call == IF GetErr(id) = ErrNil THEN PendingCall(w)
                ELSE Failed(PendingCall(w), ErrNotFound)
    IN  IF ready
        THEN Proceed(w, Observed(call, TRUE), next)
        ELSE NotReady(w, call)

EnsureImageStorePVCCreated(w) ==
    /\ pc[w] = "EnsureImageStorePVCCreated"
    /\ EnsureRead(w, ImageStorePVCId(Namespace(w)), "CreateImageStorePVC",
                  "EnsureImageStoreStatefulSetCreated")
    /\ UNCHANGED store
    /\ SameLocals
    /\ SameScenario

CreateImageStorePVC(w) ==
    /\ pc[w] = "CreateImageStorePVC"
    /\ EnsureCreate(w, ImageStorePVCId(Namespace(w)), NewPVC, NoStatus,
                    "EnsureImageStoreStatefulSetCreated")
    /\ SameLocals
    /\ SameScenario

EnsureImageStoreStatefulSetCreated(w) ==
    /\ pc[w] = "EnsureImageStoreStatefulSetCreated"
    /\ EnsureRead(w, ImageStoreStatefulSetId(Namespace(w)), "CreateImageStoreStatefulSet",
                  "IsImageStoreStatefulSetReady")
    /\ UNCHANGED store
    /\ SameLocals
    /\ SameScenario

CreateImageStoreStatefulSet(w) ==
    /\ pc[w] = "CreateImageStoreStatefulSet"
    /\ EnsureCreate(w, ImageStoreStatefulSetId(Namespace(w)), NewStatefulSetSpec,
                    NewStatefulSetStatus, "IsImageStoreStatefulSetReady")
    /\ SameLocals
    /\ SameScenario

\* a pass that goes on although the image store is not ready
StatefulSetGateOpen(w, ready) ==
    Proceed(w, Observed(PendingCall(w), ready), "EnsureImageStoreServiceCreated")

\* statefulSetReady decides whether the pass goes on to the image store service
StatefulSetGate(w, ready) ==
    Gate(w, ImageStoreStatefulSetId(Namespace(w)), ready, "EnsureImageStoreServiceCreated")

IsImageStoreStatefulSetReady(w) ==
    /\ pc[w] = "IsImageStoreStatefulSetReady"
    /\ StatefulSetGate(w, StatefulSetReady(store[ImageStoreStatefulSetId(Namespace(w))]))
    /\ UNCHANGED store
    /\ SameLocals
    /\ SameScenario

EnsureImageStoreServiceCreated(w) ==
    /\ pc[w] = "EnsureImageStoreServiceCreated"
    /\ EnsureRead(w, ImageStoreServiceId(Namespace(w)), "CreateImageStoreService",
                  "IsImageStoreServiceReady")
    /\ UNCHANGED store
    /\ SameLocals
    /\ SameScenario

CreateImageStoreService(w) ==
    /\ pc[w] = "CreateImageStoreService"
    /\ EnsureCreate(w, ImageStoreServiceId(Namespace(w)), NewServiceSpec, NoStatus,
                    "IsImageStoreServiceReady")
    /\ SameLocals
    /\ SameScenario

\* serviceReady decides whether the pass goes on to the deployment
ImageStoreServiceGate(w, ready) ==
    Gate(w, ImageStoreServiceId(Namespace(w)), ready, "EnsureDeploymentCreated")

IsImageStoreServiceReady(w) ==
    /\ pc[w] = "IsImageStoreServiceReady"
    /\ ImageStoreServiceGate(w, ServiceReady(store[ImageStoreServiceId(Namespace(w))]))
    /\ UNCHANGED store
    /\ SameLocals
    /\ SameScenario

\* getDeployment / getService: not-found is (nil, nil)
getDeployment(namespace, name) == store[DeploymentId(namespace, name)]
getService(namespace, name) == store[ServiceId(namespace, name)]

\* the existing deployment is not returned early
EnsureDeploymentAlwaysCreates(found) == "CreateDeployment"

\* if deployment != nil { return deployment, nil }
EnsureDeploymentNext(found) == IF found.exists THEN "UpdateDeployment" ELSE "CreateDeployment"

EnsureDeploymentCreated(w) ==
    /\ pc[w] = "EnsureDeploymentCreated"
    /\ LET found == getDeployment(Namespace(w), Name(w))
       IN  /\ Proceed(w, IF found.exists THEN PendingCall(w)
                         ELSE Failed(PendingCall(w), ErrNotFound),
                      EnsureDeploymentNext(found))
           /\ Locals(w, m[w], found, live[w])
    /\ UNCHANGED store
    /\ SameScenario

CreateDeployment(w) ==
    /\ pc[w] = "CreateDeployment"
    /\ LET id == DeploymentId(Namespace(w), Name(w))
           new == Created(id, NewDeploymentSpec(m[w].spec.image, m[w].spec.replicas),
                          DeploymentStatus(0, 0, 0, 0))
       IN  IF CreateErr(id) = ErrNil
           THEN /\ Put(id, new)
                /\ Proceed(w, PendingCall(w), "UpdateDeployment")
                /\ Locals(w, m[w], new, live[w])
           ELSE /\ Abort(w, PendingCall(w), CreateErr(id))
                /\ UNCHANGED store
                /\ SameLocals
    /\ SameScenario

\* UpdateDeployment, up to its c.Update: whether the replica count is written
NeedsScale(model, found) ==
    LET replicas == Deref(model.spec.replicas, DefaultReplicas)
    IN  IF found.spec.replicas # NilPtr
        THEN found.spec.replicas[1] # replicas
        ELSE TRUE

\* the deployment's spec is rebuilt from the owning resource's spec
ScaledFromSpec(model, found) ==
    [found EXCEPT !.spec = NewDeploymentSpec(model.spec.image, model.spec.replicas)]

Scaled(model, found) ==
    [found EXCEPT !.spec.replicas = ToPtr(Deref(model.spec.replicas, DefaultReplicas))]

UpdateDeployment(w) ==
    /\ pc[w] = "UpdateDeployment"
    /\ LET found == getDeployment(Namespace(w), Name(w))
       IN  IF ~found.exists
           THEN /\ Proceed(w, Failed(PendingCall(w), ErrNotFound), "IsDeploymentReady")
                /\ SameLocals
           ELSE IF NeedsScale(m[w], found)
           THEN /\ Proceed(w, PendingCall(w), "UpdateDeploymentWrite")
                /\ Locals(w, m[w], deployment[w], Scaled(m[w], found))
           ELSE /\ Proceed(w, PendingCall(w), "IsDeploymentReady")
                /\ SameLocals
    /\ UNCHANGED store
    /\ SameScenario

\* update-and-proceed: the pass goes on after it scaled the deployment
DeploymentUpdatedProceeds(w, call) == Proceed(w, call, "IsDeploymentReady")

\* modelDeploymentUpdated: the pass ends and asks to be requeued
DeploymentUpdated(w, call) == Return(w, call, ResultRequeueAfter(RequeueMedium))

UpdateDeploymentWrite(w) ==
    /\ pc[w] = "UpdateDeploymentWrite"
    /\ LET id == DeploymentId(Namespace(w), Name(w))
           err == UpdateErr(id, live[w])
       IN  IF err = ErrNil
           THEN Put(id, Updated(id, live[w])) /\ DeploymentUpdated(w, PendingCall(w))
           ELSE Abort(w, PendingCall(w), err) /\ UNCHANGED store
    /\ SameLocals
    /\ SameScenario

DeploymentGate(w, ready) ==
    Gate(w, DeploymentId(Namespace(w), Name(w)), ready, "EnsureServiceCreated")

IsDeploymentReady(w) ==
    /\ pc[w] = "IsDeploymentReady"
    /\ DeploymentGate(w, DeploymentReady(getDeployment(Namespace(w), Name(w))))
    /\ UNCHANGED store
    /\ SameLocals
    /\ SameScenario

\* if service != nil { return service, nil }
EnsureServiceNext(found) == IF found.exists THEN "IsServiceReady" ELSE "CreateService"

EnsureServiceCreated(w) ==
    /\ pc[w] = "EnsureServiceCreated"
    /\ LET found == getService(Namespace(w), Name(w))
       IN  Proceed(w, IF found.exists THEN PendingCall(w)
                      ELSE Failed(PendingCall(w), ErrNotFound),
                   EnsureServiceNext(found))
    /\ UNCHANGED store
    /\ SameLocals
    /\ SameScenario

CreateService(w) ==
    /\ pc[w] = "CreateService"
    /\ EnsureCreate(w, ServiceId(Namespace(w), Name(w)), NewServiceSpec, NoStatus,
                    "IsServiceReady")
    /\ SameLocals
    /\ SameScenario

ServiceGate(w, ready) ==
    Gate(w, ServiceId(Namespace(w), Name(w)), ready, "SetReplicas")

IsServiceReady(w) ==
    /\ pc[w] = "IsServiceReady"
    /\ ServiceGate(w, ServiceReady(getService(Namespace(w), Name(w))))
    /\ UNCHANGED store
    /\ SameLocals
    /\ SameScenario

\* the pass that wrote the counters returns done
ReplicasSetDone(w, call) == Return(w, call, ResultDone)

\* hasSet after SetReplicas: the pass ends and asks to be requeued
ReplicasSet(w, call) == Return(w, call, ResultRequeueAfter(RequeueMedium))

SetReplicas(w) ==
    /\ pc[w] = "SetReplicas"
    /\ LET id == ModelId(wkey[w])
           err == UpdateErr(id, m[w])
       IN  IF ~ShouldSetReplicas(m[w], deployment[w].status)
           THEN Skip(w, "SetAvailable") /\ UNCHANGED store
           ELSE IF err = ErrNil
           THEN /\ Put(id, StatusUpdated(id, WithReplicas(m[w], deployment[w].status)))
                /\ ReplicasSet(w, PendingCall(w))
           ELSE Abort(w, PendingCall(w), err) /\ UNCHANGED store
    /\ SameLocals
    /\ SameScenario

SetAvailable(w) ==
    /\ pc[w] = "SetAvailable"
    /\ LET id == ModelId(wkey[w])
           err == UpdateErr(id, m[w])
       IN  IF IsAvailable(m[w])
           THEN Finish(w, ResultDone) /\ UNCHANGED store
           ELSE IF err = ErrNil
           THEN /\ Put(id, StatusUpdated(id, WithAvailable(m[w])))
                /\ Return(w, PendingCall(w), ResultDone)
           ELSE Abort(w, PendingCall(w), err) /\ UNCHANGED store
    /\ SameLocals
    /\ SameScenario

\* any store call may fail (network, auth, ...): `if err != nil { return ..., err }`
StoreError(w) ==
    /\ pc[w] # Idle
    /\ PendingCall(w) # NoCall
    /\ Abort(w, PendingCall(w), ErrUnavailable)
    /\ UNCHANGED store
    /\ SameLocals
    /\ SameScenario

Step(w) ==
    \/ Fetch(w)
    \/ SetProgressing(w)
    \/ EnsureImageStorePVCCreated(w)
    \/ CreateImageStorePVC(w)
    \/ EnsureImageStoreStatefulSetCreated(w)
    \/ CreateImageStoreStatefulSet(w)
    \/ IsImageStoreStatefulSetReady(w)
    \/ EnsureImageStoreServiceCreated(w)
    \/ CreateImageStoreService(w)
    \/ IsImageStoreServiceReady(w)
    \/ EnsureDeploymentCreated(w)
    \/ CreateDeployment(w)
    \/ UpdateDeployment(w)
    \/ UpdateDeploymentWrite(w)
    \/ IsDeploymentReady(w)
    \/ EnsureServiceCreated(w)
    \/ CreateService(w)
    \/ IsServiceReady(w)
    \/ SetReplicas(w)
    \/ SetAvailable(w)

\* the steps of a pass while nobody edits the owning resource: the deployment
\* was created from the spec the pass holds, UpdateDeployment finds nothing to
\* scale and never reaches its c.Update
Rollout(w) ==
    \/ Fetch(w)
    \/ SetProgressing(w)
    \/ EnsureImageStorePVCCreated(w)
    \/ CreateImageStorePVC(w)
    \/ EnsureImageStoreStatefulSetCreated(w)
    \/ CreateImageStoreStatefulSet(w)
    \/ IsImageStoreStatefulSetReady(w)
    \/ EnsureImageStoreServiceCreated(w)
    \/ CreateImageStoreService(w)
    \/ IsImageStoreServiceReady(w)
    \/ EnsureDeploymentCreated(w)
    \/ CreateDeployment(w)
    \/ UpdateDeployment(w)
    \/ IsDeploymentReady(w)
    \/ EnsureServiceCreated(w)
    \/ CreateService(w)
    \/ IsServiceReady(w)
    \/ SetReplicas(w)
    \/ SetAvailable(w)

(***************************************************************************)
(* The environment: the cluster's own controllers and the user.            *)
(***************************************************************************)
SamePasses == UNCHANGED <<pc, wkey, m, deployment, live, result, calls, npass>>

\* the StatefulSet controller reports the image store's pod ready
StatefulSetBecomesReady(ns) ==
    LET id == ImageStoreStatefulSetId(ns)
    IN  /\ store[id].exists
        /\ ~StatefulSetReady(store[id])
        /\ Put(id, [store[id] EXCEPT !.status.readyReplicas = 1, !.rv = @ + 1])
        /\ UNCHANGED budget
        /\ SamePasses

\* the cluster assigns a Service its cluster IP
ServiceGetsClusterIP(id) ==
    /\ id[1] = "Service"
    /\ store[id].exists
    /\ ~ServiceReady(store[id])
    /\ Put(id, [store[id] EXCEPT !.spec.clusterIP = "10.0.0.1", !.rv = @ + 1])
    /\ UNCHANGED budget
    /\ SamePasses

\* the Deployment controller: all declared replicas are up
RolledOut(obj) ==
    LET r == Deref(obj.spec.replicas, DefaultReplicas)
    IN  DeploymentStatus(r, r, r, 0)

\* the Deployment controller: the pods are down
Down(obj) ==
    LET r == Deref(obj.spec.replicas, DefaultReplicas)
    IN  DeploymentStatus(r, 0, 0, r)

DeploymentRollsOut(k) ==
    LET id == DeploymentId(k.namespace, k.name)
    IN  /\ store[id].exists
        /\ store[id].status # RolledOut(store[id])
        /\ Put(id, [store[id] EXCEPT !.status = RolledOut(store[id]), !.rv = @ + 1])
        /\ UNCHANGED budget
        /\ SamePasses

DeploymentDegrades(k) ==
    LET id == DeploymentId(k.namespace, k.name)
    IN  /\ budget > 0
        /\ store[id].exists
        /\ store[id].status = RolledOut(store[id])
        /\ Put(id, [store[id] EXCEPT !.status = Down(store[id]), !.rv = @ + 1])
        /\ budget' = budget - 1
        /\ SamePasses

StatefulSetDegrades(ns) ==
    LET id == ImageStoreStatefulSetId(ns)
    IN  /\ budget > 0
        /\ StatefulSetReady(store[id])
        /\ Put(id, [store[id] EXCEPT !.status.readyReplicas = 0, !.rv = @ + 1])
        /\ budget' = budget - 1
        /\ SamePasses

\* the user edits the spec of the owning resource
EditModel(k) ==
    LET id == ModelId(k)
    IN  /\ budget > 0
        /\ store[id].exists
        /\ \E image \in Images, replicas \in ReplicaPtrs :
              /\ [image |-> image, replicas |-> replicas] # store[id].spec
              /\ Put(id, [store[id] EXCEPT !.spec = [image |-> image, replicas |-> replicas],
                                           !.rv = @ + 1])
        /\ budget' = budget - 1
        /\ SamePasses

\* the user deletes the owning resource
DeleteModel(k) ==
    LET id == ModelId(k)
    IN  /\ budget > 0
        /\ store[id].exists
        /\ Put(id, [store[id] EXCEPT !.exists = FALSE])
        /\ budget' = budget - 1
        /\ SamePasses

\* the cluster's controllers make progress
Progress ==
    \/ \E ns \in Namespaces : StatefulSetBecomesReady(ns)
    \/ \E id \in ObjectIds : ServiceGetsClusterIP(id)
    \/ \E k \in Keys : DeploymentRollsOut(k)

\* workloads degrade, the user edits or deletes the owning resource
Disturbance ==
    \/ \E k \in Keys : DeploymentDegrades(k)
    \/ \E ns \in Namespaces : StatefulSetDegrades(ns)
    \/ \E k \in Keys : EditModel(k)
    \/ \E k \in Keys : DeleteModel(k)

(***************************************************************************)
(* Specification: the passes of the controller as it is set up, with store *)
(* errors and a disturbing environment.                                    *)
(***************************************************************************)
InitStore(keys, image, replicas) ==
    [id \in ObjectIds |->
        IF \E k \in keys : id = ModelId(k) THEN NewModel(image, replicas) ELSE NoObject]

InitWorkers ==
    /\ pc = [w \in Workers |-> Idle]
    /\ m = [w \in Workers |-> NoObject]
    /\ deployment = [w \in Workers |-> NoObject]
    /\ live = [w \in Workers |-> NoObject]
    /\ result = [w \in Workers |-> ResultDone]
    /\ calls = [w \in Workers |-> <<>>]
    /\ npass = 0

Init ==
    /\ wkey = [w \in Workers |-> K1]
    /\ \E replicas \in ReplicaPtrs : store = InitStore({K1}, "x", replicas)
    /\ budget = MaxEnv
    /\ InitWorkers

\* SetupWithManager sets no MaxConcurrentReconciles: one worker runs every pass
Reconciler == "w1"

Next ==
    \/ \E k \in Keys : StartPass(Reconciler, k)
    \/ Step(Reconciler)
    \/ StoreError(Reconciler)
    \/ Progress
    \/ Disturbance

Spec == Init /\ [][Next]_vars

(***************************************************************************)
(* Two workers handed the same key with no serialisation by the queue.     *)
(***************************************************************************)
NextRace ==
    \/ \E w \in Workers, k \in Keys : StartPass(w, k)
    \/ \E w \in Workers : Rollout(w)
    \/ Progress

SpecRace == Init /\ [][NextRace]_vars

(***************************************************************************)
(* Two owning resources, each with a worker of its own: the queue hands a  *)
(* key to one worker at a time, passes of distinct keys run in parallel.   *)
(***************************************************************************)
InitKeys ==
    /\ \E k \in Keys \ {K1} :
          /\ wkey = [w \in Workers |-> IF w = Reconciler THEN K1 ELSE k]
          /\ store = InitStore({K1, k}, "x", NilPtr)
    /\ budget = 0
    /\ InitWorkers

NextKeys ==
    \/ \E w \in Workers : StartPass(w, wkey[w])
    \/ \E w \in Workers : Rollout(w)
    \/ Progress

SpecKeys == InitKeys /\ [][NextKeys]_vars

(***************************************************************************)
(* The end-to-end scenario: a fresh owning resource with two replicas, no  *)
(* store errors; the cluster's controllers act between the passes and a    *)
(* pass is dispatched once they have nothing left to do.                   *)
(***************************************************************************)
ScenarioReplicas == 2
MaxPasses == 8

InitE2E ==
    /\ \E k \in Keys :
          /\ wkey = [w \in Workers |-> k]
          /\ store = InitStore({k}, "x", ToPtr(ScenarioReplicas))
    /\ budget = 0
    /\ InitWorkers

\* every sub-resource created so far has become ready
Settled ==
    /\ \A ns \in Namespaces :
          store[ImageStoreStatefulSetId(ns)].exists
              => StatefulSetReady(store[ImageStoreStatefulSetId(ns)])
    /\ \A id \in ObjectIds :
          (id[1] = "Service" /\ store[id].exists) => ServiceReady(store[id])
    /\ \A k \in Keys :
          store[DeploymentId(k.namespace, k.name)].exists
              => store[DeploymentId(k.namespace, k.name)].status
                     = RolledOut(store[DeploymentId(k.namespace, k.name)])

\* the first pass, or the pass the previous result asked for
ScenarioPass(w, k) ==
    /\ npass < MaxPasses
    /\ npass = 0 \/ result[w].requeue
    /\ Settled
    /\ k \in Requests
    /\ BeginPass(w)
    /\ wkey' = [wkey EXCEPT ![w] = k]
    /\ npass' = npass + 1
    /\ UNCHANGED <<store, budget>>

ScenarioProgress ==
    /\ pc[Reconciler] = Idle
    /\ Progress

NextE2E ==
    \/ \E k \in Keys : ScenarioPass(Reconciler, k)
    \/ Rollout(Reconciler)
    \/ ScenarioProgress

SpecE2E == InitE2E /\ [][NextE2E]_vars /\ WF_vars(NextE2E)

(***************************************************************************)
(* Convergence: the work queue runs the pass again after every requeue or  *)
(* error result, store errors stop after a while, the cluster's            *)
(* controllers bring every created sub-resource to ready and keep it so.   *)
(***************************************************************************)
\* the first pass for the key, or the pass the last result asks for
Retry(w) ==
    /\ calls[w] = <<>> \/ result[w].requeue \/ result[w].err # ErrNil
    /\ BeginPass(w)
    /\ UNCHANGED <<store, wkey, budget, npass>>

\* a store call fails while the store still has its troubles
TransientError(w) ==
    /\ budget > 0
    /\ pc[w] # Idle
    /\ PendingCall(w) # NoCall
    /\ Abort(w, PendingCall(w), ErrUnavailable)
    /\ budget' = budget - 1
    /\ UNCHANGED <<store, wkey, npass>>
    /\ SameLocals

NextLive ==
    \/ Retry(Reconciler)
    \/ Rollout(Reconciler)
    \/ TransientError(Reconciler)
    \/ Progress

SpecLive ==
    /\ Init
    /\ [][NextLive]_vars
    /\ WF_vars(Retry(Reconciler) \/ Rollout(Reconciler))
    /\ WF_vars(Progress)

(***************************************************************************)
(* Properties.                                                             *)
(***************************************************************************)
Ended(w) == pc[w] = Idle /\ calls[w] # <<>>
LastCall(w) == calls[w][Len(calls[w])]
ConditionTypes == {ModelProgressing, ModelAvailable}
StoredModel(k) == store[ModelId(k)]

\* a call that failed, other than a read that found nothing
IsFailure(call) == call.err # ErrNil /\ ~(call.op = "get" /\ call.err = ErrNotFound)

\* C1: once a condition type is in status.conditions of an owning resource it
\* is in it after every later step of the controller; setting another
\* condition type keeps the conditions set before.
MonotonicConditions ==
    [][\A k \in Requests, type \in ConditionTypes :
          HasCondition(StoredModel(k).status.conditions, type)
              => HasCondition(StoredModel(k).status.conditions', type)]_vars

CallsOf(w) == {calls[w][i] : i \in 1..Len(calls[w])}
Before(w, i) == {calls[w][j] : j \in 1..(i - 1)}
IsCreateOf(call, id) == call.op = "create" /\ call.obj = id
SawReady(cs, step) == \E c \in cs : c.step = step /\ c.ready

\* C2: a pass issues the create of the deployment only after it saw the image
\* store's StatefulSet and Service ready, and the create of the workload Service
\* only after it saw the deployment ready; a pass whose StatefulSet check
\* reported not ready issues no create of the deployment.
StageOrdering ==
    \A w \in Workers : \A i \in 1..Len(calls[w]) :
        LET c == calls[w][i]
            ns == Namespace(w)
            n == Name(w)
        IN  /\ IsCreateOf(c, DeploymentId(ns, n))
                => /\ SawReady(Before(w, i), "IsImageStoreStatefulSetReady")
                   /\ SawReady(Before(w, i), "IsImageStoreServiceReady")
            /\ IsCreateOf(c, ServiceId(ns, n))
                => SawReady(Before(w, i), "IsDeploymentReady")
            /\ (c.step = "IsImageStoreStatefulSetReady" /\ ~c.ready)
                => \A d \in CallsOf(w) : ~IsCreateOf(d, DeploymentId(ns, n))

\* a pass that created the deployment and then the workload Service
StageOrderingWitness ==
    \E w \in Workers : \E c, d \in CallsOf(w) :
        /\ IsCreateOf(c, DeploymentId(Namespace(w), Name(w))) /\ c.err = ErrNil
        /\ IsCreateOf(d, ServiceId(Namespace(w), Name(w))) /\ d.err = ErrNil

\* C3: when the owning resource is removed after the pass fetched it, every
\* later step of the pass writes nothing and the pass returns no error.
DeletionIsNoOp ==
    [][\A w \in Workers :
          (pc[w] \notin {Idle, "Get"} /\ ~StoredModel(wkey[w]).exists /\ pc'[w] # pc[w])
              => /\ store' = store
                 /\ pc'[w] = Idle => result'[w].err \in {ErrNil, ErrUnavailable}]_vars

\* C4: a pass that reaches the drift step and finds the deployment with a
\* replica count other than the spec's (1 when the spec has none) goes on to
\* update it; when the update succeeds the deployment has the spec's count,
\* the pass returns requeue-after-5 and has made no status write.
DriftCorrection ==
    [][\A w \in Workers :
          LET id == DeploymentId(Namespace(w), Name(w))
              r2 == Deref(m[w].spec.replicas, DefaultReplicas)
              moved == pc'[w] # pc[w]
              ok == calls'[w][Len(calls'[w])].err = ErrNil
          IN  /\ (/\ pc[w] = "UpdateDeployment" /\ moved /\ ok
                  /\ store[id].exists /\ store[id].spec.replicas # ToPtr(r2))
                     => pc'[w] = "UpdateDeploymentWrite"
              /\ (pc[w] = "UpdateDeploymentWrite" /\ moved /\ ok)
                     => /\ store'[id].spec.replicas = ToPtr(r2)
                        /\ pc'[w] = Idle
                        /\ result'[w] = ResultRequeueAfter(RequeueMedium)
                        /\ \A i \in 1..Len(calls'[w]) : calls'[w][i].op # "updateStatus"]_vars

\* a pass that scaled the deployment and returned
DriftCorrectionWitness ==
    \E w \in Workers :
        /\ Ended(w)
        /\ LastCall(w).step = "UpdateDeploymentWrite"
        /\ LastCall(w).err = ErrNil
        /\ store[DeploymentId(Namespace(w), Name(w))].spec.replicas
               = ToPtr(Deref(m[w].spec.replicas, DefaultReplicas))

\* C8: a store call that fails (other than a read finding nothing) is the last
\* call of its pass, and the pass returns that error with an empty result;
\* what the pass created before the failure stays in the store.
StoreErrorAborts ==
    \A w \in Workers : \A i \in 1..Len(calls[w]) :
        LET c == calls[w][i]
        IN  /\ IsFailure(c)
                => /\ i = Len(calls[w])
                   /\ pc[w] = Idle
                   /\ result[w] = Result(FALSE, 0, c.err)
            /\ (c.op = "create" /\ c.err = ErrNil) => store[c.obj].exists

\* a pass that created a sub-resource and then ended on a failing call
StoreErrorAbortsWitness ==
    \E w \in Workers :
        /\ Ended(w)
        /\ IsFailure(LastCall(w))
        /\ result[w].err = LastCall(w).err
        /\ \E c \in CallsOf(w) : c.op = "create" /\ c.err = ErrNil

WorkloadIds(w) == {DeploymentId(Namespace(w), Name(w)), ServiceId(Namespace(w), Name(w))}

\* C9: an ensure of the deployment or the workload Service that finds the
\* object issues no create and leaves the store as it is, the deployment it
\* returns being the stored one; a create is issued only right after the
\* ensure's own read found nothing, and at most one object is ever created
\* under the name.
IdempotentEnsure ==
    /\ [](\A w \in Workers :
            /\ \A i \in 1..Len(calls[w]) :
                  (calls[w][i].op = "create" /\ calls[w][i].obj \in WorkloadIds(w))
                      => /\ i > 1
                         /\ calls[w][i - 1].op = "get"
                         /\ calls[w][i - 1].obj = calls[w][i].obj
                         /\ calls[w][i - 1].err = ErrNotFound
            /\ \A id \in WorkloadIds(w) : store[id].uid <= 1
            /\ deployment[w].exists
                  => deployment[w].uid = store[DeploymentId(Namespace(w), Name(w))].uid)
    /\ [][\A w \in Workers :
            LET dep == DeploymentId(Namespace(w), Name(w))
                svc == ServiceId(Namespace(w), Name(w))
                read == calls'[w][Len(calls'[w])].err = ErrNil
            IN  /\ (pc[w] = "EnsureDeploymentCreated" /\ pc'[w] # pc[w]
                        /\ store[dep].exists /\ read)
                      => /\ pc'[w] # "CreateDeployment"
                         /\ store' = store
                         /\ deployment'[w] = store[dep]
                /\ (pc[w] = "EnsureServiceCreated" /\ pc'[w] # pc[w]
                        /\ store[svc].exists /\ read)
                      => /\ pc'[w] # "CreateService"
                         /\ store' = store]_vars

\* a pass whose ensure steps found the deployment and the Service of an
\* earlier pass
IdempotentEnsureWitness ==
    \E w \in Workers :
        /\ \E c \in CallsOf(w) : c.step = "EnsureDeploymentCreated" /\ c.err = ErrNil
        /\ \E c \in CallsOf(w) : c.step = "EnsureServiceCreated" /\ c.err = ErrNil
        /\ \A id \in WorkloadIds(w) : store[id].uid = 1
        /\ deployment[w].uid = 1

CounterFields == {"replicas", "readyReplicas", "availableReplicas", "unavailableReplicas"}

\* C10: the counter step of a pass issues a status write exactly when one of
\* the four counters of the deployment the pass holds differs from the one
\* stored in the owning resource's status; when none differs the pass goes
\* on to mark Available.
NoOpSuppression ==
    [][\A w \in Workers :
          (pc[w] = "SetReplicas" /\ pc'[w] # pc[w] /\ StoredModel(wkey[w]).exists)
              => LET differs == \E f \in CounterFields :
                                    StoredModel(wkey[w]).status[f] # deployment[w].status[f]
                     wrote == /\ Len(calls'[w]) = Len(calls[w]) + 1
                              /\ calls'[w][Len(calls'[w])].op = "updateStatus"
                              /\ calls'[w][Len(calls'[w])].obj = ModelId(wkey[w])
                 IN  /\ differs <=> wrote
                     /\ ~differs => pc'[w] = "SetAvailable"]_vars

\* a pass that found the recorded counters up to date and went on
NoOpSuppressionWitness ==
    \E w \in Workers :
        /\ pc[w] = "SetAvailable"
        /\ m[w].status.readyReplicas > 0
        /\ m[w].status.readyReplicas = deployment[w].status.readyReplicas

WriteOps == {"create", "update", "updateStatus"}
IsWrite(call) == call.op \in WriteOps
Writes(w) == SelectSeq(calls[w], IsWrite)
WriteLog(w) == [i \in 1..Len(Writes(w)) |-> <<Writes(w)[i].op, Writes(w)[i].obj>>]

ExpectedWrites(n, k) ==
    CASE n = 1 -> << <<"updateStatus", ModelId(k)>> >>
      [] n = 2 -> << <<"create", ImageStorePVCId(k.namespace)>>,
                     <<"create", ImageStoreStatefulSetId(k.namespace)>> >>
      [] n = 3 -> << <<"create", ImageStoreServiceId(k.namespace)>> >>
      [] n = 4 -> << <<"create", DeploymentId(k.namespace, k.name)>> >>
      [] n = 5 -> << <<"create", ServiceId(k.namespace, k.name)>> >>
      [] n = 6 -> << <<"updateStatus", ModelId(k)>> >>
      [] n = 7 -> << <<"updateStatus", ModelId(k)>> >>
      [] OTHER -> <<>>

ExpectedResult(n) ==
    CASE n = 1 -> Result(TRUE, 1, ErrNil)
      [] n \in 2..6 -> Result(TRUE, 5, ErrNil)
      [] OTHER -> Result(FALSE, 0, ErrNil)

ExpectedEffect(n, k) ==
    LET model == StoredModel(k)
        dep == store[DeploymentId(k.namespace, k.name)]
    IN  CASE n = 1 -> model.status.conditions = <<ModelProgressing>>
          [] n = 4 -> dep.exists /\ dep.spec.replicas = ToPtr(2)
          [] n = 6 -> /\ model.status.replicas = 2
                      /\ model.status.readyReplicas = 2
                      /\ model.status.availableReplicas = 2
                      /\ model.status.unavailableReplicas = 0
          [] n = 7 -> HasCondition(model.status.conditions, ModelAvailable)
          [] OTHER -> TRUE

ScenarioDone ==
    /\ npass = 7
    /\ Ended(Reconciler)
    /\ result[Reconciler] = Result(FALSE, 0, ErrNil)

\* C5: in the end-to-end scenario (fresh owning resource with 2 replicas, no
\* store errors, sub-resources becoming ready between the passes) exactly
\* seven passes occur: pass 1 sets Progressing and requeues after 1, pass 2
\* creates claim and server, pass 3 the backing endpoint, pass 4 the deployment
\* with 2 replicas, pass 5 the workload endpoint, pass 6 writes the counters,
\* each requeueing after 5, and pass 7 sets Available and returns done.
EndToEnd ==
    /\ [](/\ npass <= 7
          /\ \A c \in CallsOf(Reconciler) : ~IsFailure(c)
          /\ (npass >= 1 /\ Ended(Reconciler))
                => /\ result[Reconciler] = ExpectedResult(npass)
                   /\ WriteLog(Reconciler) = ExpectedWrites(npass, wkey[Reconciler])
                   /\ ExpectedEffect(npass, wkey[Reconciler]))
    /\ <>[]ScenarioDone

\* the seventh pass has marked the owning resource Available and returned done
EndToEndWitness ==
    /\ ScenarioDone
    /\ LastCall(Reconciler).op = "updateStatus"
    /\ IsAvailable(StoredModel(wkey[Reconciler]))
    /\ StoredModel(wkey[Reconciler]).status.readyReplicas = 2

StatusWriteSteps == {"SetProgressing", "SetReplicas", "SetAvailable"}

\* C6: when two passes for the same key interleave, a status write succeeds
\* only on the status the writing pass read: Available is never replaced by
\* Progressing and no counter goes back to an older value; at most one
\* deployment and one workload Service are created for the key; a pass whose
\* write or create is rejected ends with that error and makes no further call.
SameKeySafety ==
    /\ [](/\ \A w \in Workers : \A i \in 1..Len(calls[w]) :
                IsFailure(calls[w][i])
                    => /\ i = Len(calls[w])
                       /\ pc[w] = Idle
                       /\ result[w] = Result(FALSE, 0, calls[w][i].err)
          /\ \A k \in Requests :
                /\ store[DeploymentId(k.namespace, k.name)].uid <= 1
                /\ store[ServiceId(k.namespace, k.name)].uid <= 1)
    /\ [][\A k \in Requests :
            /\ StoredModel(k).status' # StoredModel(k).status
                  => \E w \in Workers :
                        /\ wkey[w] = k
                        /\ pc[w] \in StatusWriteSteps
                        /\ pc'[w] = Idle
                        /\ m[w] = StoredModel(k)
            /\ HasCondition(StoredModel(k).status.conditions, ModelAvailable)
                  => HasCondition(StoredModel(k).status.conditions', ModelAvailable)
            /\ \A f \in CounterFields :
                  StoredModel(k).status'[f] >= StoredModel(k).status[f]]_vars

\* a pass lost its status write to a write of the other pass for the key
SameKeySafetyWitness ==
    \E w, v \in Workers :
        /\ w # v
        /\ wkey[w] = wkey[v]
        /\ Ended(w)
        /\ LastCall(w).op = "updateStatus"
        /\ LastCall(w).err = ErrConflict
        /\ result[w].err = ErrConflict
        /\ \E c \in CallsOf(v) : c.op = "updateStatus" /\ c.err = ErrNil

Touched(w) == {c.obj : c \in CallsOf(w)}

\* C7: the objects a pass for one key reads or writes are disjoint from the
\* objects a pass for any other key reads or writes, also when the two owning
\* resources are in the same namespace.
CrossKeyIsolation ==
    \A w, v \in Workers :
        wkey[w] # wkey[v] => Touched(w) \cap Touched(v) = {}

Occurrences(conditions, type) ==
    Cardinality({i \in 1..Len(conditions) : conditions[i] = type})

\* C11: in every reachable state each condition type (Progressing, Available)
\* occurs at most once in status.conditions of an owning resource.
ConditionUniqueness ==
    \A k \in Requests, type \in ConditionTypes :
        Occurrences(StoredModel(k).status.conditions, type) <= 1

\* SetAvailable has written its condition over a status that held Progressing
ConditionUniquenessWitness ==
    \E w \in Workers :
        /\ Ended(w)
        /\ LastCall(w).step = "SetAvailable"
        /\ LastCall(w).err = ErrNil
        /\ IsProgressing(m[w])
        /\ Occurrences(StoredModel(wkey[w]).status.conditions, ModelAvailable) = 1

WaitSteps ==
    {"IsImageStoreStatefulSetReady", "IsImageStoreServiceReady", "UpdateDeploymentWrite",
     "IsDeploymentReady", "IsServiceReady", "SetReplicas"}

WroteProgressing(w) ==
    \E c \in CallsOf(w) : c.step = "SetProgressing" /\ c.op = "updateStatus" /\ c.err = ErrNil

\* C12: a pass returns requeue-after-1 exactly when it newly wrote the
\* Progressing condition; every other requeue (server, backing endpoint,
\* deployment or workload endpoint not ready, deployment scaled, counters
\* written) is requeue-after-5, and no other delay is returned.
RequeueDelays ==
    \A w \in Workers :
        Ended(w)
            => /\ WroteProgressing(w) <=> result[w] = Result(TRUE, 1, ErrNil)
               /\ (result[w].requeue /\ ~WroteProgressing(w))
                     => /\ result[w] = Result(TRUE, 5, ErrNil)
                        /\ LastCall(w).step \in WaitSteps
               /\ ~result[w].requeue => result[w].after = 0

\* passes have returned both delays: the last one ended on a readiness wait
RequeueDelaysWitness ==
    \E w \in Workers :
        /\ Ended(w)
        /\ result[w] = Result(TRUE, 5, ErrNil)
        /\ LastCall(w).step = "IsDeploymentReady"
        /\ IsProgressing(StoredModel(wkey[w]))

\* C13: when the initial fetch of the owning resource reports not-found, the
\* pass returns no error and no requeue and makes no create, update or status
\* write.
FetchNotFound ==
    /\ [](\A w \in Workers :
            (calls[w] # <<>> /\ calls[w][1].err = ErrNotFound)
                => /\ Len(calls[w]) = 1
                   /\ pc[w] = Idle
                   /\ result[w] = Result(FALSE, 0, ErrNil))
    /\ [][\A w \in Workers :
            (pc[w] = "Get" /\ pc'[w] # pc[w] /\ ~StoredModel(wkey[w]).exists)
                => store' = store]_vars

\* a pass for a deleted owning resource has ended at its fetch
FetchNotFoundWitness ==
    \E w \in Workers :
        /\ Ended(w)
        /\ calls[w][1].step = "Get"
        /\ calls[w][1].err = ErrNotFound
        /\ ~StoredModel(wkey[w]).exists

Fetched(w) == m[w].exists
FetchedAvailable(w) == Fetched(w) /\ HasCondition(m[w].status.conditions, ModelAvailable)

\* C14: once Available is in the status of an owning resource it stays there
\* after every later step, also when the server, an endpoint or the deployment
\* becomes not ready or the replica count drifts; a pass that fetched the
\* resource as Available writes no Progressing condition and returns
\* requeue-after-5, an error or done.
StickyAvailable ==
    /\ [][\A k \in Requests :
            HasCondition(StoredModel(k).status.conditions, ModelAvailable)
                => HasCondition(StoredModel(k).status.conditions', ModelAvailable)]_vars
    /\ [](\A w \in Workers :
            FetchedAvailable(w)
                => /\ \A c \in CallsOf(w) : c.step # "SetProgressing"
                   /\ Ended(w) => \/ result[w] = Result(TRUE, 5, ErrNil)
                                  \/ result[w] = Result(FALSE, 0, result[w].err))

\* an Available resource whose deployment went down: the pass waits and the
\* status still says Available
StickyAvailableWitness ==
    \E w \in Workers :
        /\ Ended(w)
        /\ FetchedAvailable(w)
        /\ LastCall(w).step = "IsDeploymentReady"
        /\ ~LastCall(w).ready
        /\ result[w] = Result(TRUE, 5, ErrNil)
        /\ HasCondition(StoredModel(wkey[w]).status.conditions, ModelAvailable)

\* the owning resource is Available, every sub-resource exists and is ready,
\* the deployment has the spec's replica count and the recorded counters are
\* the deployment's
Steady(k) ==
    LET model == StoredModel(k)
        dep == store[DeploymentId(k.namespace, k.name)]
    IN  /\ model.exists
        /\ HasCondition(model.status.conditions, ModelAvailable)
        /\ store[ImageStorePVCId(k.namespace)].exists
        /\ StatefulSetReady(store[ImageStoreStatefulSetId(k.namespace)])
        /\ ServiceReady(store[ImageStoreServiceId(k.namespace)])
        /\ DeploymentReady(dep)
        /\ dep.spec.replicas = ToPtr(Deref(model.spec.replicas, 1))
        /\ ServiceReady(store[ServiceId(k.namespace, k.name)])
        /\ \A f \in CounterFields : model.status[f] = dep.status[f]

\* what the pass holds is what the store holds
SteadyView(w) ==
    /\ Fetched(w) => m[w] = StoredModel(wkey[w])
    /\ deployment[w].exists
          => deployment[w] = store[DeploymentId(Namespace(w), Name(w))]

StoreFailed(w) ==
    /\ Len(calls'[w]) > Len(calls[w])
    /\ calls'[w][Len(calls'[w])].err = ErrUnavailable

\* C15: when the owning resource is Available and nothing around it changes
\* (all sub-resources ready, replica count as in the spec, recorded counters
\* as the deployment's), a step of a pass issues no create, update or status
\* write and leaves the store as it is, and the pass returns done with no
\* requeue.
SteadyFixpoint ==
    [][\A w \in Workers :
          (/\ pc[w] # Idle /\ pc'[w] # pc[w]
           /\ Steady(wkey[w]) /\ SteadyView(w) /\ ~StoreFailed(w))
              => /\ store' = store
                 /\ \/ calls'[w] = calls[w]
                    \/ /\ Len(calls'[w]) = Len(calls[w]) + 1
                       /\ calls'[w][Len(calls'[w])].op = "get"
                       /\ calls'[w][Len(calls'[w])].err = ErrNil
                 /\ pc'[w] = Idle => result'[w] = Result(FALSE, 0, ErrNil)]_vars

\* a whole pass over a steady resource: only reads, done
SteadyFixpointWitness ==
    \E w \in Workers :
        /\ Ended(w)
        /\ Steady(wkey[w])
        /\ SteadyView(w)
        /\ FetchedAvailable(w)
        /\ deployment[w].exists
        /\ \A c \in CallsOf(w) : c.op = "get" /\ c.err = ErrNil
        /\ \E c \in CallsOf(w) : c.step = "IsServiceReady"
        /\ result[w] = Result(FALSE, 0, ErrNil)

\* C16: a step of a pass leaves every field of an existing deployment other
\* than its replica count as it is, whatever the spec of the owning resource
\* says (a changed image is not written to it), and leaves the spec of the
\* owning resource as it is.
DeploymentFrame ==
    [][\A w \in Workers :
          pc'[w] # pc[w]
              => \A k \in Keys :
                    LET id == DeploymentId(k.namespace, k.name)
                    IN  /\ store[id].exists
                              => /\ store'[id].exists
                                 /\ store'[id].uid = store[id].uid
                                 /\ store'[id].spec.image = store[id].spec.image
                                 /\ store'[id].status = store[id].status
                        /\ StoredModel(k).spec' = StoredModel(k).spec]_vars

\* a pass scaled a deployment whose image is no longer the spec's
DeploymentFrameWitness ==
    \E w \in Workers :
        /\ Ended(w)
        /\ LastCall(w).step = "UpdateDeploymentWrite"
        /\ LastCall(w).err = ErrNil
        /\ m[w].spec.image # store[DeploymentId(Namespace(w), Name(w))].spec.image
        /\ store[DeploymentId(Namespace(w), Name(w))].spec.replicas
               = ToPtr(Deref(m[w].spec.replicas, 1))

Converged(w) ==
    /\ Ended(w)
    /\ result[w] = Result(FALSE, 0, ErrNil)
    /\ StoredModel(wkey[w]).exists
    /\ HasCondition(StoredModel(wkey[w]).status.conditions, ModelAvailable)

\* C17: when the pass is run again after every requeue or error result, store
\* errors stop from some point on and every created sub-resource becomes and
\* stays ready, then from every partial state (some sub-resources created,
\* an earlier pass aborted by an error) the owning resource is eventually
\* marked Available and a pass returns done.
EventualAvailability == <>[]Converged(Reconciler)

\* Available and done after a pass had been aborted by a store error
EventualAvailabilityWitness ==
    /\ Converged(Reconciler)
    /\ budget = 0
    /\ LastCall(Reconciler).step = "SetAvailable"

\* worker w returns from a pass that had fetched the owning resource
ReturnsDone(w) ==
    /\ pc[w] # Idle
    /\ pc'[w] = Idle
    /\ calls'[w][1].err = ErrNil
    /\ result'[w] = Result(FALSE, 0, ErrNil)

StoredAvailable(k) ==
    /\ StoredModel(k).exists
    /\ HasCondition(StoredModel(k).status.conditions, ModelAvailable)

\* C18 as stated: a pass for an owning resource that existed at its fetch
\* returns done (no error, no requeue) only if the Available condition is in
\* the stored status when the pass ends.
NoSilentStallAsStated ==
    [][\A w \in Workers : ReturnsDone(w) => StoredAvailable(wkey[w])']_vars

\* C18, amended: a pass for an owning resource that existed at its fetch
\* returns done only if the Available condition is in the stored status when
\* the pass ends, or the pass fetched the resource as Available and the
\* resource was deleted before the pass ended.
NoSilentStall ==
    [][\A w \in Workers :
          ReturnsDone(w)
              => \/ StoredAvailable(wkey[w])'
                 \/ FetchedAvailable(w) /\ ~StoredModel(wkey[w]).exists']_vars

\* a pass fetched a resource that was not Available yet and returned done
NoSilentStallWitness ==
    \E w \in Workers :
        /\ Ended(w)
        /\ result[w] = Result(FALSE, 0, ErrNil)
        /\ Fetched(w)
        /\ ~FetchedAvailable(w)
        /\ StoredAvailable(wkey[w])

\* C19: whenever a pass writes the Available condition, the ready-replica
\* counter recorded in the status of the owning resource equals the declared
\* replica count of the deployment, also when the deployment's status changes
\* between the ensure step's snapshot and the readiness check's re-read.
AccurateCounters ==
    [][\A k \in Requests :
          (/\ ~HasCondition(StoredModel(k).status.conditions, ModelAvailable)
           /\ HasCondition(StoredModel(k).status.conditions', ModelAvailable))
              => StoredModel(k).status.readyReplicas'
                    = Deref(store'[DeploymentId(k.namespace, k.name)].spec.replicas, 1)]_vars

====
